---------------------------- MODULE Spec2Model ----------------------------
(***************************************************************************)
(* Model of the Spot quick-start session (src/src/main.py, jdu_spot) and   *)
(* of the Robot methods it calls (src/src/robot.py).                       *)
(*                                                                         *)
(* The session is one sequential control flow; pc/idx/polling give its     *)
(* position.  The robot (e-stop, lease holder, motor power) is the         *)
(* environment: every SDK call may raise, the e-stop may change and        *)
(* another client may take the lease at any moment.                        *)
(***************************************************************************)
EXTENDS Integers, Sequences, FiniteSets, TLC

VARIABLES
    execution,   \* main.py:15  module-level selected behaviour
    source,      \* config.source  ("" = falsy, no --source capture)
    camera,      \* config.camera
    pc,          \* phase of jdu_spot
    idx,         \* index of the current statement of the behaviour (0 outside it)
    exc,         \* TRUE when an exception is propagating / has left jdu_spot
    lease,       \* self.lease            ("unset" | "token")
    kaRunning,   \* the LeaseKeepAlive thread is alive
    clients,     \* command/state/image clients created (getClients)
    estopped,    \* robot: e-stop engaged
    holder,      \* robot: who owns the body lease ("none" | "self" | "other")
    powered,     \* robot: motors powered
    polling,     \* inside move's while-True loop
    elapsed,     \* number of time.sleep(0.5) done by the running move (0 outside)
    feedback,    \* last feedback read by the current move ("none" before)
    returned,    \* return value of the last move ("none" | "True" | "False")
    last,        \* the latest call, with the state it was made in
    log,         \* the calls made so far, in order
    error,       \* class of the exception propagating ("none" without one)
    cap,         \* what the latest getImage / getDepthBlend did
    kaFails,     \* consecutive failed check-ins of the keep-alive thread
    mainResult,  \* what main did with the session's outcome ("none" before)
    probe,       \* test.py: the value looked up in CameraSource.values()
    scan,        \* test.py: elements of the list already compared
    answer,      \* test.py: result of the lookup ("none" while it runs)
    cv_depth,    \* _convertDepthToImage: the uint16 depth frame (its pixels, flattened)
    converted,   \* _convertDepthToImage: the scaling of robot.py:436 was evaluated
    depth8,      \* _convertDepthToImage: the uint8 pixels it produced (<< >> before)
    fpe          \* _convertDepthToImage: floating-point exceptions signalled by the scaling

vars == <<execution, source, camera, pc, idx, exc, lease, kaRunning, clients,
          estopped, holder, powered, polling, elapsed, feedback, returned,
          last, log, error, cap, kaFails, mainResult, probe, scan, answer,
          cv_depth, converted, depth8, fpe>>

-----------------------------------------------------------------------------
(* Bounds and program constants                                             *)

\* most sleeps one move may do in the model
MaxPolls == 22

\* most consecutive failed check-ins followed in the model
MaxPingFails == 2

\* most pixels of a depth frame in the model
MaxPixels == 3

\* robot.py:244  end_time = 10.0 (seconds)
end_time == 10

\* robot.py:267  time.sleep(0.5): two sleeps per second
SleepsPerSec == 2

ExecutionType == {"MOVE", "IMAGES", "ELSE"}

cameras == <<"frontleft", "frontright", "left", "right", "back">>

CameraSet == {cameras[i] : i \in 1..Len(cameras)}

\* values of --source and --camera tried ("top" is no camera position)
SourceInputs == {"", "back_fisheye_image", "left_depth"}

CameraInputs == {"all", "back", "top"}

-----------------------------------------------------------------------------
(* The behaviour selected by `execution`, as the list of its statements     *)

Stmt(op, arg) == [op |-> op, arg |-> arg]

MoveBody ==
    << Stmt("powerOn", ""), Stmt("standUp", "0.2"),
       Stmt("twistPosition", "25,0,0"), Stmt("twistPosition", "25,0,0"),
       Stmt("standTaller", "0.1"),
       Stmt("move", "0.5"), Stmt("move", "-0.5"),
       Stmt("powerOff", "graceful"), Stmt("logComment", "JDU movement finished.") >>

ImagesBody(src, cam) ==
    << Stmt("powerOn", ""), Stmt("standUp", "0.2") >>
    \o (IF src # "" THEN << Stmt("getImage", src) >> ELSE << >>)
    \o (IF cam = "all"
          THEN [i \in 1..Len(cameras) |-> Stmt("getDepthBlend", cameras[i])]
          ELSE << >>)
    \o (IF cam \in CameraSet THEN << Stmt("getDepthBlend", cam) >> ELSE << >>)
    \o << Stmt("powerOff", "graceful"), Stmt("logComment", "JDU camera finished.") >>

Body(ex, src, cam) ==
    IF ex = "MOVE" THEN MoveBody
    ELSE IF ex = "IMAGES" THEN ImagesBody(src, cam)
    ELSE << >>

Prog == Body(execution, source, camera)

-----------------------------------------------------------------------------
(* Control flow of jdu_spot: the phases, and where an exception lands       *)

\* try moved inside the with statement: a failing LeaseKeepAlive() skips finally
HandlerWithOutsideTry(p) ==
    CASE p = "leaseKeepAlive" -> "done"
      [] p = "body" -> "keepAliveExit"
      [] OTHER -> "done"

\* the phase an exception raised in phase p continues at
Handler(p) ==
    CASE p = "leaseKeepAlive" -> "returnLease"
      [] p = "body" -> "keepAliveExit"
      [] OTHER -> "done"

\* finally nested inside the with statement: the lease is returned first
SuccReleaseFirst(p) ==
    CASE p = "authenticate" -> "assertIsNotEStop"
      [] p = "assertIsNotEStop" -> "getLease"
      [] p = "getLease" -> "leaseKeepAlive"
      [] p = "leaseKeepAlive" -> "body"
      [] p = "body" -> "returnLease"
      [] p = "returnLease" -> "keepAliveExit"
      [] OTHER -> "done"

\* the keep-alive scope opened only around the final power-off
SuccNoKeepAlive(p) ==
    CASE p = "authenticate" -> "assertIsNotEStop"
      [] p = "assertIsNotEStop" -> "getLease"
      [] p = "getLease" -> "body"
      [] p = "body" -> "keepAliveExit"
      [] p = "keepAliveExit" -> "returnLease"
      [] OTHER -> "done"

\* the phase that follows phase p when p completes normally
Succ(p) ==
    CASE p = "authenticate" -> "assertIsNotEStop"
      [] p = "assertIsNotEStop" -> "getLease"
      [] p = "getLease" -> "leaseKeepAlive"
      [] p = "leaseKeepAlive" -> "body"
      [] p = "body" -> "keepAliveExit"
      [] p = "keepAliveExit" -> "returnLease"
      [] OTHER -> "done"

\* a call, with the state it is made in
Call(name, arg) ==
    [call |-> name, arg |-> arg, estop |-> estopped, ka |-> kaRunning,
     holder |-> holder, powered |-> powered, exc |-> exc]

\* the call is recorded
Record(name, arg) ==
    /\ last' = Call(name, arg)
    /\ log' = Append(log, Stmt(name, arg))

\* control leaves the current phase normally
Goto(p) ==
    /\ pc' = p
    /\ idx' = IF p = "body" THEN 1 ELSE 0

\* entering the behaviour: an empty behaviour (ELSE: pass) falls through
Enter(p) ==
    IF p = "body" /\ Len(Prog) = 0 THEN Goto(Succ("body")) ELSE Goto(p)

\* the current phase raised
Raise ==
    /\ pc' = Handler(pc)
    /\ idx' = 0
    /\ exc' = TRUE

\* the current phase raised an exception of class kind
Throw(kind) == Raise /\ error' = kind

\* no exception raised by this step: what was propagating still is
Pass == error' = error

\* the current statement of the behaviour completed
Advance ==
    /\ IF idx < Len(Prog)
         THEN pc' = pc /\ idx' = idx + 1
         ELSE Goto(Succ("body"))
    /\ exc' = exc

AtStmt(op) == pc = "body" /\ idx \in 1..Len(Prog) /\ Prog[idx].op = op /\ ~polling

-----------------------------------------------------------------------------
(* Robot side of the SDK calls                                              *)

\* the robot executes a power or motion command only for the lease holder
\* and only while it is not e-stopped; otherwise the SDK call raises
RobotAccepts == holder = "self" /\ ~estopped

\* the assertion compiled away: the check passes whatever is_estopped() says
EStopCheckSkipped(e) == TRUE

\* assert not self.robot.is_estopped()
EStopCheckPasses(e) == ~e

\* acquire-like take: a token is handed out but the other holder is not preempted
TakeHolderNoPreempt(h) == IF h = "other" THEN "other" ELSE "self"

\* lease_client.take(): the lease changes hands to this client, whoever held it
TakeHolder(h) == "self"

Status == {"STATUS_PROCESSING", "STATUS_COMMAND_OVERRIDDEN", "STATUS_COMMAND_TIMED_OUT"}

TrajStatus == {"STATUS_AT_GOAL", "STATUS_NEAR_GOAL", "STATUS_GOING_TO_GOAL"}

BodyStatus == {"BODY_STATUS_SETTLED", "BODY_STATUS_MOVING"}

\* no feedback read yet
NoFeedback == [status |-> "none", traj |-> "none", body |-> "none"]

\* what robot_command_feedback can return to the polling loop
Feedback == [status : Status, traj : TrajStatus, body : BodyStatus]

\* the goal test made before the command-status test
PollOutcomeGoalFirst(fb) ==
    IF fb.traj = "STATUS_AT_GOAL" /\ fb.body = "BODY_STATUS_SETTLED" THEN "True"
    ELSE IF fb.status # "STATUS_PROCESSING" THEN "False"
    ELSE "sleep"

\* one iteration of move's while-True loop on feedback fb
PollOutcome(fb) ==
    IF fb.status # "STATUS_PROCESSING" THEN "False"
    ELSE IF fb.traj = "STATUS_AT_GOAL" /\ fb.body = "BODY_STATUS_SETTLED" THEN "True"
    ELSE "sleep"

-----------------------------------------------------------------------------
(* Cameras: the angle table of Robot and the enumerations of enums.py       *)

\* Robot.__init__: self.camera_angles (a dict: one angle per key)
camera_angles ==
    [back |-> 0, frontleft |-> -78, frontright |-> -102, left |-> 0, right |-> 180]

\* enums.py: CameraPosition
CameraPosition == <<"frontleft", "frontright", "left", "right", "back">>

PositionSet == {CameraPosition[i] : i \in 1..Len(CameraPosition)}

\* enums.py: the member names of every CameraSource group, in order
MemberNames == <<"DEPTH", "DEPTH_VISUAL_FRAME", "FISHEYE">>

\* enums.py: CameraSource, its nested enumerations in definition order
CameraSource ==
    << [class |-> "Back",
        DEPTH |-> "back_depth",
        DEPTH_VISUAL_FRAME |-> "back_depth_in_visual_frame",
        FISHEYE |-> "back_fisheye_image"],
       [class |-> "FrontLeft",
        DEPTH |-> "frontleft_depth",
        DEPTH_VISUAL_FRAME |-> "frontleft_depth_in_visual_frame",
        FISHEYE |-> "frontleft_fisheye_image"],
       [class |-> "FrontRight",
        DEPTH |-> "frontright_depth",
        DEPTH_VISUAL_FRAME |-> "frontright_depth_in_visual_frame",
        FISHEYE |-> "frontright_fisheye_image"],
       [class |-> "Left",
        DEPTH |-> "left_depth",
        DEPTH_VISUAL_FRAME |-> "left_depth_in_visual_frame",
        FISHEYE |-> "left_fisheye_image"],
       [class |-> "Right",
        DEPTH |-> "right_depth",
        DEPTH_VISUAL_FRAME |-> "right_depth_in_visual_frame",
        FISHEYE |-> "right_fisheye_image"] >>

\* item.value of member m of group g
MemberValue(g, m) ==
    CASE m = "DEPTH" -> g.DEPTH
      [] m = "DEPTH_VISUAL_FRAME" -> g.DEPTH_VISUAL_FRAME
      [] OTHER -> g.FISHEYE

\* the list built from item.name instead of item.value
CameraSourceNames ==
    [k \in 1..(Len(CameraSource) * Len(MemberNames)) |->
        MemberNames[((k - 1) % Len(MemberNames)) + 1]]

\* CameraSource.values(): [item.value for sub in enums for item in sub]
CameraSourceValues ==
    [k \in 1..(Len(CameraSource) * Len(MemberNames)) |->
        MemberValue(CameraSource[((k - 1) \div Len(MemberNames)) + 1],
                    MemberNames[((k - 1) % Len(MemberNames)) + 1])]

\* "sub in s" on Python strings
Contains(s, sub) ==
    \E i \in 1..(Len(s) - Len(sub) + 1) : SubSeq(s, i, i + Len(sub) - 1) = sub

\* s.split("_")[0]: the text before the first underscore (all of s without one)
SplitFirst(s) ==
    IF Contains(s, "_")
      THEN LET i == CHOOSE k \in 1..Len(s) :
                      /\ SubSeq(s, k, k) = "_"
                      /\ \A j \in 1..(k - 1) : SubSeq(s, j, j) # "_"
           IN  SubSeq(s, 1, i - 1)
      ELSE s

\* the pairing made from the two depth streams of a camera
BlendSourcesDepthOnly(cam) == << cam \o "_depth", cam \o "_depth_in_visual_frame" >>

\* getDepthBlend: sources = [camera + "_depth_in_visual_frame", camera + "_fisheye_image"]
BlendSources(cam) == << cam \o "_depth_in_visual_frame", cam \o "_fisheye_image" >>

\* ndimage.rotate(image, self.camera_angles[key]) works on a decoded array and a known key
CanRotate(image, key) == image = "array" /\ key \in DOMAIN camera_angles

\* the frames and the file system as one capture finds them
CaptureEnv ==
    [fetch : BOOLEAN, depth : {"array", "raise"}, visual : {"array", "raise", "None"},
     fuse : BOOLEAN, mkdir : BOOLEAN, write : BOOLEAN]

\* no capture made yet
NoCapture ==
    [method |-> "none", arg |-> "", fetched |-> << >>, angle |-> 0, failed |-> "none",
     error |-> "none", decodeFailed |-> FALSE, rotated |-> FALSE, saved |-> FALSE,
     written |-> FALSE]

\* what one capture did: the step that raised (if any) and how far it got
Capture(method, arg, fetched, failed, err, decodeFailed, angle, written) ==
    [method |-> method, arg |-> arg, fetched |-> fetched, angle |-> angle,
     failed |-> failed, error |-> err, decodeFailed |-> decodeFailed,
     rotated |-> failed \in {"none", "getFullPath"},
     saved |-> failed = "none",
     written |-> failed = "none" /\ written]

\* getImage(source, path, name) on environment e
GetImageRun(src, e) ==
    LET key == SplitFirst(src)
        dec == IF Contains(src, "depth") THEN e.depth ELSE e.visual
        image == CASE dec = "array" -> "array"
                   [] dec = "raise" -> "proto"
                   [] OTHER -> "None"
        angle == IF key \in DOMAIN camera_angles THEN camera_angles[key] ELSE 0
        Done(failed, err) ==
            Capture("getImage", src, << src >>, failed, err, dec # "array", angle, e.write)
    IN  IF ~e.fetch THEN Done("fetch", "Error")
        ELSE IF key \notin DOMAIN camera_angles THEN Done("rotate", "KeyError")
        ELSE IF ~CanRotate(image, key) THEN Done("rotate", "ValueError")
        ELSE IF ~e.mkdir THEN Done("getFullPath", "OSError")
        ELSE Done("none", "none")

\* the conversions wrapped in try/except as in getImage
BlendDecodeCaught(dec) == FALSE

\* getDepthBlend: a conversion that does not yield an array ends the call
BlendDecodeRaises(dec) == dec # "array"

\* getDepthBlend(camera, path, name) on environment e
GetDepthBlendRun(cam, e) ==
    LET angle == IF cam \in DOMAIN camera_angles THEN camera_angles[cam] ELSE 0
        bad == e.depth # "array" \/ e.visual # "array"
        Done(failed, err) ==
            Capture("getDepthBlend", cam, BlendSources(cam), failed, err, bad, angle, e.write)
    IN  IF ~e.fetch THEN Done("fetch", "Error")
        ELSE IF BlendDecodeRaises(e.depth) THEN Done("decode", "ValueError")
        ELSE IF BlendDecodeRaises(e.visual) THEN
            Done("decode", IF e.visual = "None" THEN "AttributeError" ELSE "ValueError")
        ELSE IF ~e.fuse THEN Done("fuse", "cv2.error")
        ELSE IF cam \notin DOMAIN camera_angles THEN Done("rotate", "KeyError")
        ELSE IF ~e.mkdir THEN Done("getFullPath", "OSError")
        ELSE Done("none", "none")

\* except bosdyn.client.Error: only the SDK's errors are caught
CatchesSdkErrorsOnly(kind) == kind = "Error"

\* main: except Exception catches every error class a session step can raise
Catches(kind) == TRUE

-----------------------------------------------------------------------------
(* Initial state: jdu_spot is about to run                                  *)

SessionInit ==
    /\ execution \in ExecutionType
    /\ source \in SourceInputs
    /\ camera \in CameraInputs
    /\ (execution # "IMAGES" => source = "back_fisheye_image" /\ camera = "back")
    /\ pc = "authenticate"
    /\ idx = 0
    /\ exc = FALSE
    /\ lease = "unset"
    /\ kaRunning = FALSE
    /\ clients = FALSE
    /\ estopped \in BOOLEAN
    /\ holder \in {"none", "other"}
    /\ powered = FALSE
    /\ polling = FALSE
    /\ elapsed = 0
    /\ feedback = NoFeedback
    /\ returned = "none"
    /\ last = [call |-> "none", arg |-> "", estop |-> FALSE, ka |-> FALSE,
               holder |-> "none", powered |-> FALSE, exc |-> FALSE]
    /\ log = << >>
    /\ error = "none"
    /\ cap = NoCapture
    /\ kaFails = 0
    /\ mainResult = "none"

\* test.py is not running
TestIdle == probe = "None" /\ scan = 0 /\ answer = "none"

\* no depth frame is being converted
DepthIdle == cv_depth = << >> /\ converted = FALSE /\ depth8 = << >> /\ fpe = {}

Init == SessionInit /\ TestIdle /\ DepthIdle

testVars == <<probe, scan, answer>>

depthVars == <<cv_depth, converted, depth8, fpe>>

\* what the statements of jdu_spot leave alone
outside == <<kaFails, mainResult, testVars, depthVars>>

config == <<execution, source, camera>>

robot == <<estopped, holder, powered>>

moveVars == <<polling, elapsed, feedback, returned>>

-----------------------------------------------------------------------------
(* The statements of jdu_spot                                               *)

\* spot.authenticate(username, password)
authenticate ==
    /\ pc = "authenticate"
    /\ Record("authenticate", "")
    /\ \E ok \in BOOLEAN :
          IF ok THEN Enter(Succ(pc)) /\ exc' = exc /\ Pass ELSE Throw("Error")
    /\ UNCHANGED <<config, lease, kaRunning, clients, robot, moveVars, cap, outside>>

\* spot.assertIsNotEStop()
assertIsNotEStop ==
    /\ pc = "assertIsNotEStop"
    /\ Record("assertIsNotEStop", "")
    /\ IF EStopCheckPasses(estopped)
         THEN Enter(Succ(pc)) /\ exc' = exc /\ Pass
         ELSE Throw("AssertionError")
    /\ UNCHANGED <<config, lease, kaRunning, clients, robot, moveVars, cap, outside>>

\* spot.getLease()
getLease ==
    /\ pc = "getLease"
    /\ Record("getLease", holder)
    /\ \E ok \in BOOLEAN :
          IF ok
            THEN /\ lease' = "token"
                 /\ holder' = TakeHolder(holder)
                 /\ Enter(Succ(pc))
                 /\ exc' = exc
                 /\ Pass
            ELSE /\ Throw("Error")
                 /\ UNCHANGED <<lease, holder>>
    /\ UNCHANGED <<config, kaRunning, clients, estopped, powered, moveVars, cap, outside>>

\* with spot.leaseKeepAlive():  (scope entry)
leaseKeepAlive ==
    /\ pc = "leaseKeepAlive"
    /\ Record("leaseKeepAlive", "")
    /\ \E ok \in BOOLEAN :
          IF ok
            THEN kaRunning' = TRUE /\ Enter(Succ(pc)) /\ exc' = exc /\ Pass
            ELSE kaRunning' = FALSE /\ Throw("Error")
    /\ kaFails' = 0
    /\ UNCHANGED <<config, lease, clients, robot, moveVars, cap, mainResult, testVars, depthVars>>

\* end of the with block: LeaseKeepAlive.__exit__ stops and joins the thread
keepAliveExit ==
    /\ pc = "keepAliveExit"
    /\ kaRunning' = FALSE
    /\ kaFails' = 0
    /\ Goto(Succ(pc))
    /\ log' = Append(log, Stmt("keepAliveExit", ""))
    /\ UNCHANGED <<config, exc, error, lease, clients, robot, moveVars, last, cap,
                   mainResult, testVars, depthVars>>

\* finally: spot.returnLease()
returnLease ==
    /\ pc = "returnLease"
    /\ Record("returnLease", "")
    /\ \E ok \in BOOLEAN :
          IF ok /\ holder = "self"
            THEN holder' = "none" /\ Goto(Succ(pc)) /\ exc' = exc /\ Pass
            ELSE holder' = holder /\ Throw("Error")
    /\ UNCHANGED <<config, lease, kaRunning, clients, estopped, powered, moveVars, cap,
                   outside>>

-----------------------------------------------------------------------------
(* The Robot methods called by the behaviour                                *)

others == <<config, lease, kaRunning, outside>>

\* spot.powerOn(): power_on, assert is_powered_on, getClients
\* powerOn going on to getClients whatever is_powered_on() answered
AssertSkipped(on) == TRUE

\* robot.py:107  assert self.robot.is_powered_on()
AssertPoweredOn(on) == on

powerOn ==
    /\ AtStmt("powerOn")
    /\ Record("powerOn", Prog[idx].arg)
    /\ \E r \in {"on", "raise", "off"} :
          IF AssertPoweredOn(r = "on" /\ RobotAccepts)
            THEN /\ powered' = (r = "on" /\ RobotAccepts)
                 /\ clients' = TRUE
                 /\ Advance
                 /\ Pass
            ELSE /\ powered' = (IF r = "off" THEN FALSE ELSE powered)
                 /\ clients' = clients
                 /\ Throw(IF r = "off" THEN "AssertionError" ELSE "Error")
    /\ UNCHANGED <<others, estopped, holder, moveVars, cap>>

\* a command sent through self.command_client: issued, then accepted or raised
Command(name) ==
    /\ AtStmt(name)
    /\ Record(name, Prog[idx].arg)
    /\ \E ok \in BOOLEAN :
          IF ok /\ clients /\ powered /\ RobotAccepts
            THEN Advance /\ Pass
            ELSE Throw("Error")
    /\ UNCHANGED <<others, clients, robot, moveVars, cap>>

\* spot.standUp(sleepSec): blocking_stand
standUp == Command("standUp")

\* spot.twistPosition(yaw, roll, pitch, sleepSec)
twistPosition == Command("twistPosition")

\* spot.standTaller(height, sleepSec)
standTaller == Command("standTaller")

\* spot.move(dx, dy, dyaw) up to the while loop: read the pose, issue the command
move ==
    /\ AtStmt("move")
    /\ Record("move", Prog[idx].arg)
    /\ \E ok \in BOOLEAN :
          IF ok /\ clients /\ powered /\ RobotAccepts
            THEN /\ polling' = TRUE
                 /\ UNCHANGED <<pc, idx, exc, error>>
            ELSE /\ polling' = FALSE
                 /\ Throw("Error")
    /\ elapsed' = 0
    /\ feedback' = NoFeedback
    /\ returned' = "none"
    /\ UNCHANGED <<others, clients, robot, cap>>

\* one iteration of move's polling loop; jdu_spot discards the value move returns
movePoll ==
    /\ pc = "body"
    /\ polling
    /\ \E ok \in BOOLEAN, fb \in Feedback :
          IF ~ok
            THEN /\ Throw("Error")
                 /\ polling' = FALSE
                 /\ elapsed' = 0
                 /\ UNCHANGED <<feedback, returned, last, log>>
            ELSE /\ feedback' = fb
                 /\ IF PollOutcome(fb) = "sleep"
                      THEN /\ elapsed < MaxPolls
                           /\ elapsed' = elapsed + 1
                           /\ UNCHANGED <<pc, idx, exc, error, polling, returned,
                                          last, log>>
                      ELSE /\ returned' = PollOutcome(fb)
                           /\ polling' = FALSE
                           /\ Record("moveReturn", PollOutcome(fb))
                           /\ Advance
                           /\ Pass
                           /\ elapsed' = 0
    /\ UNCHANGED <<others, clients, robot, cap>>

\* spot.getImage(source, path, name)
getImage ==
    /\ AtStmt("getImage")
    /\ Record("getImage", Prog[idx].arg)
    /\ \E e \in CaptureEnv :
          /\ (e.fetch => clients)
          /\ cap' = GetImageRun(Prog[idx].arg, e)
          /\ IF cap'.failed = "none" THEN Advance /\ Pass ELSE Throw(cap'.error)
    /\ UNCHANGED <<others, clients, robot, moveVars>>

\* spot.getDepthBlend(camera, path, name)
getDepthBlend ==
    /\ AtStmt("getDepthBlend")
    /\ Record("getDepthBlend", Prog[idx].arg)
    /\ \E e \in CaptureEnv :
          /\ (e.fetch => clients)
          /\ cap' = GetDepthBlendRun(Prog[idx].arg, e)
          /\ IF cap'.failed = "none" THEN Advance /\ Pass ELSE Throw(cap'.error)
    /\ UNCHANGED <<others, clients, robot, moveVars>>

\* spot.powerOff(cutImmediately=False): power_off, assert not is_powered_on
powerOff ==
    /\ AtStmt("powerOff")
    /\ Record("powerOff", Prog[idx].arg)
    /\ \E r \in {"off", "raise", "on"} :
          IF r = "off" /\ holder = "self"
            THEN powered' = FALSE /\ Advance /\ Pass
            ELSE powered' = powered /\ Throw(IF r = "on" THEN "AssertionError" ELSE "Error")
    /\ UNCHANGED <<others, clients, estopped, holder, moveVars, cap>>

\* spot.logComment(comment)
logComment ==
    /\ AtStmt("logComment")
    /\ Record("logComment", Prog[idx].arg)
    /\ \E ok \in BOOLEAN :
          IF ok THEN Advance /\ Pass ELSE Throw("Error")
    /\ UNCHANGED <<others, clients, robot, moveVars, cap>>

-----------------------------------------------------------------------------
(* The robot's surroundings while the session runs                          *)

Running == pc # "done"

\* somebody presses the emergency stop
EStopEngage ==
    /\ Running
    /\ ~estopped
    /\ estopped' = TRUE
    /\ UNCHANGED <<config, pc, idx, exc, lease, kaRunning, clients, holder,
                   powered, moveVars, last, log, error, cap, outside>>

\* the emergency stop is released
EStopRelease ==
    /\ Running
    /\ estopped
    /\ estopped' = FALSE
    /\ UNCHANGED <<config, pc, idx, exc, lease, kaRunning, clients, holder,
                   powered, moveVars, last, log, error, cap, outside>>

\* another client takes the lease (from nobody, or from this session)
OtherTakes ==
    /\ Running
    /\ holder # "other"
    /\ holder' = "other"
    /\ UNCHANGED <<config, pc, idx, exc, lease, kaRunning, clients, estopped,
                   powered, moveVars, last, log, error, cap, outside>>

\* the other client returns its lease
OtherReturns ==
    /\ Running
    /\ holder = "other"
    /\ holder' = "none"
    /\ UNCHANGED <<config, pc, idx, exc, lease, kaRunning, clients, estopped,
                   powered, moveVars, last, log, error, cap, outside>>

\* the keep-alive thread checks in with the lease service; a failure is logged
\* by the thread, which goes on checking in
KeepAlivePing ==
    /\ kaRunning
    /\ \E ok \in BOOLEAN :
          IF ok THEN kaFails' = 0
          ELSE kaFails < MaxPingFails /\ kaFails' = kaFails + 1
    /\ UNCHANGED <<config, pc, idx, exc, error, lease, kaRunning, clients, robot,
                   moveVars, last, log, cap, mainResult, testVars, depthVars>>

\* main: try: jdu_spot(options); return True / except Exception: return False
main ==
    /\ pc = "done"
    /\ mainResult = "none"
    /\ mainResult' = (IF error = "none" THEN "True"
                      ELSE IF Catches(error) THEN "False"
                      ELSE "propagated")
    /\ UNCHANGED <<config, pc, idx, exc, error, lease, kaRunning, clients, robot,
                   moveVars, last, log, cap, kaFails, testVars,
                   depthVars>>

Next ==
    \/ authenticate
    \/ assertIsNotEStop
    \/ getLease
    \/ leaseKeepAlive
    \/ powerOn
    \/ standUp
    \/ twistPosition
    \/ standTaller
    \/ move
    \/ movePoll
    \/ getImage
    \/ getDepthBlend
    \/ powerOff
    \/ logComment
    \/ keepAliveExit
    \/ returnLease
    \/ EStopEngage
    \/ EStopRelease
    \/ OtherTakes
    \/ OtherReturns
    \/ KeepAlivePing
    \/ main

Spec == Init /\ [][Next]_vars

-----------------------------------------------------------------------------
(* test.py: a lookup in CameraSource.values(), as Python's list `in` does   *)

\* values looked up: None, every source name, and parts of source names
Probes ==
    {CameraSourceValues[k] : k \in DOMAIN CameraSourceValues}
        \cup {"None", "", "back", "depth", "back_depth_in", "fisheye_image",
               "frontleft_", "_depth", "DEPTH", "Back"}

sessionVars ==
    <<config, pc, idx, exc, error, lease, kaRunning, clients, robot, moveVars,
      last, log, cap, kaFails, mainResult>>

TestInit ==
    /\ SessionInit
    /\ execution = "MOVE"
    /\ ~estopped
    /\ holder = "none"
    /\ probe \in Probes
    /\ scan = 0
    /\ answer = "none"
    /\ DepthIdle

\* condition = probe in CameraSource.values(): one comparison of the list scan
MemberScan ==
    /\ answer = "none"
    /\ IF scan < Len(CameraSourceValues)
         THEN IF CameraSourceValues[scan + 1] = probe
                THEN answer' = "True" /\ scan' = scan
                ELSE answer' = answer /\ scan' = scan + 1
         ELSE answer' = "False" /\ scan' = scan
    /\ UNCHANGED <<sessionVars, probe, depthVars>>

TestNext == MemberScan

TestSpec == TestInit /\ [][TestNext]_vars

-----------------------------------------------------------------------------
(* robot.py:421-440  _convertDepthToImage on a depth frame                  *)

\* pixel values of the frames: every range they span (1, 2, 3, 4) divides
\* 255.0 without rounding, so the scaling below is the float arithmetic
PixelValues == {0, 1, 2, 4}

DepthFrames ==
    UNION {[1..n -> PixelValues] : n \in 1..MaxPixels}

RECURSIVE SeqMin(_)
SeqMin(f) ==
    IF Len(f) = 1 THEN f[1]
    ELSE LET m == SeqMin(Tail(f)) IN IF f[1] < m THEN f[1] ELSE m

RECURSIVE SeqMax(_)
SeqMax(f) ==
    IF Len(f) = 1 THEN f[1]
    ELSE LET m == SeqMax(Tail(f)) IN IF f[1] > m THEN f[1] ELSE m

\* robot.py:435  max_val - min_val, in uint16
DepthRange(f) == (SeqMax(f) - SeqMin(f)) % 65536

\* robot.py:436  (255.0 / depth_range * (cv_depth - min_val)).astype("uint8")
\* A zero range makes 255.0 / depth_range inf (divide-by-zero signalled, a
\* warning, no exception), inf * 0 NaN (invalid signalled), and the cast of
\* NaN to uint8 is undefined: nan is the byte the build produces for it.
DepthScale(f, nan) ==
    IF DepthRange(f) = 0
      THEN [fpe |-> {"divide", "invalid"},
            depth8 |-> [i \in 1..Len(f) |-> nan]]
      ELSE [fpe |-> {},
            depth8 |-> [i \in 1..Len(f) |->
                          (255 * (f[i] - SeqMin(f))) \div DepthRange(f)]]

\* bytes a cast of NaN to uint8 is followed to
NaNCasts == {0, 128, 255}

DepthInit ==
    /\ SessionInit
    /\ execution = "IMAGES"
    /\ source = "left_depth"
    /\ camera = "back"
    /\ ~estopped
    /\ holder = "none"
    /\ TestIdle
    /\ cv_depth \in DepthFrames
    /\ converted = FALSE
    /\ depth8 = << >>
    /\ fpe = {}

convertDepthToImage ==
    /\ ~converted
    /\ Len(cv_depth) > 0
    /\ converted' = TRUE
    /\ \E nan \in NaNCasts :
          /\ depth8' = DepthScale(cv_depth, nan).depth8
          /\ fpe' = DepthScale(cv_depth, nan).fpe
    /\ UNCHANGED <<sessionVars, testVars, cv_depth>>

DepthNext == convertDepthToImage

DepthSpec == DepthInit /\ [][DepthNext]_vars

-----------------------------------------------------------------------------
(* Observations on the calls made                                           *)

Count(name) == Cardinality({i \in DOMAIN log : log[i].op = name})

Called(name) == \E i \in DOMAIN log : log[i].op = name

PowerCalls == {"powerOn", "powerOff"}

CommandCalls == {"standUp", "twistPosition", "standTaller", "move"}

CaptureCalls == {"getImage", "getDepthBlend"}

\* calls that make the robot act: power-on, stand, twist, move command
ActuationCalls == {"powerOn"} \cup CommandCalls

LeaseTaken == lease = "token"

-----------------------------------------------------------------------------
(* C1: the lease is returned exactly once per successful getLease, on every *)
(* exit path of the session, and never when getLease failed or was not      *)
(* reached.  While the session runs at most one return has been made; when  *)
(* it has ended the number of returns is 1 if the lease was taken, else 0.  *)
C1_ReturnLeaseExactlyOnce ==
    /\ Count("returnLease") <= (IF LeaseTaken THEN 1 ELSE 0)
    /\ pc = "done" => Count("returnLease") = (IF LeaseTaken THEN 1 ELSE 0)

\* a step failed after the lease was taken, and the session ended with one return
C1_Witness ==
    /\ pc = "done"
    /\ exc
    /\ LeaseTaken
    /\ Called("standUp")
    /\ ~Called("twistPosition")
    /\ Count("returnLease") = 1

(* C2: every actuation or capture call (powerOn, standUp, twistPosition,    *)
(* standTaller, move, getImage, getDepthBlend, powerOff) is made while the  *)
(* keep-alive is running: inside the with block.                            *)
C2_CallsInsideKeepAlive ==
    last.call \in (PowerCalls \cup CommandCalls \cup CaptureCalls) => last.ka

\* a capture call made with the keep-alive running
C2_Witness ==
    /\ last.call = "getDepthBlend"
    /\ last.ka
    /\ Called("powerOn")

(* C3: when the e-stop check reads the emergency stop as engaged, the run   *)
(* ends there: no lease taken, no keep-alive started, no power, command or  *)
(* capture call, no lease return.                                           *)
C3_EStopAbortsBeforeLease ==
    (last.call = "assertIsNotEStop" /\ last.estop)
        => /\ pc = "done"
           /\ exc
           /\ ~LeaseTaken
           /\ ~kaRunning
           /\ \A i \in DOMAIN log : log[i].op \in {"authenticate", "assertIsNotEStop"}

\* the check was made on an e-stopped robot and the session is over
C3_Witness ==
    /\ last.call = "assertIsNotEStop"
    /\ last.estop
    /\ pc = "done"
    /\ holder = "none"

(* C4: no actuation call (power-on, stand, twist, move command) is issued   *)
(* while the emergency stop is engaged.                                     *)
C4_NoActuationWhileEStopped ==
    last.call \in ActuationCalls => ~last.estop

(* C5: when returnLease is invoked the keep-alive is no longer running, on  *)
(* the normal and on the exception path.                                    *)
C5_KeepAliveStoppedBeforeReturn ==
    last.call = "returnLease" => ~last.ka /\ ~kaRunning

\* the lease is returned on the exception path after the keep-alive had run
C5_Witness ==
    /\ last.call = "returnLease"
    /\ last.exc
    /\ Called("powerOn")
    /\ ~last.ka

\* the lease is returned on the normal path after the keep-alive had run
C5_WitnessNormal ==
    /\ last.call = "returnLease"
    /\ ~last.exc
    /\ Called("logComment")
    /\ ~last.ka

(* C6: move returns True only on a poll whose command status is still       *)
(* Processing with the trajectory at goal and the body settled; it returns  *)
(* False on the first poll whose command status is not Processing, even if  *)
(* that poll reports at-goal and settled; on any other poll it returns      *)
(* nothing and keeps polling.                                               *)
C6_PollDecides ==
    feedback # NoFeedback =>
        LET proc == feedback.status = "STATUS_PROCESSING"
            goal == /\ feedback.traj = "STATUS_AT_GOAL"
                    /\ feedback.body = "BODY_STATUS_SETTLED"
        IN  /\ returned = "True" <=> (proc /\ goal)
            /\ returned = "False" <=> ~proc
            /\ returned = "none" <=> (proc /\ ~goal)
            /\ polling => returned = "none"
            /\ (returned = "none" /\ pc = "body") => polling

\* a poll that is no longer Processing but at goal and settled: move returned False
C6_Witness ==
    /\ returned = "False"
    /\ feedback.traj = "STATUS_AT_GOAL"
    /\ feedback.body = "BODY_STATUS_SETTLED"
    /\ last.call = "moveReturn"
    /\ last.arg = "False"

(* C7: a move that has been waiting for longer than its timeout (end_time   *)
(* seconds since the command was issued) is no longer polling: it has       *)
(* returned Timeout.                                                        *)
C7_MoveTimesOut ==
    polling => elapsed <= end_time * SleepsPerSec

(* C8: once a move has returned a non-success outcome, no further move      *)
(* command is issued in that session.                                       *)
C8_FailedMoveAbortsBehaviour ==
    \A i, j \in DOMAIN log :
        (i < j /\ log[i] = Stmt("moveReturn", "False")) => log[j].op # "move"

(* C9: the lease is never returned on the error path with the robot still   *)
(* powered on and no power-off attempted.                                   *)
C9_PowerOffBeforeRelease ==
    (last.call = "returnLease" /\ last.exc /\ last.powered) => Called("powerOff")

(* C10 as claimed: when getLease is called while another client holds the   *)
(* lease the acquire fails: no lease is obtained, the other holder keeps    *)
(* its lease and no power or command call is issued.                        *)
C10_AcquireFailsFast ==
    (\E i \in DOMAIN log : log[i] = Stmt("getLease", "other"))
        => /\ ~LeaseTaken
           /\ \A i \in DOMAIN log : log[i].op \notin (PowerCalls \cup CommandCalls)

(* C10 amended: getLease called while another client holds the lease does   *)
(* not wait: in that one step either the take raises, the other holder      *)
(* keeps its lease and the session ends, or the take succeeds and the lease *)
(* has passed from the other holder to this session.  A session that        *)
(* obtained no lease issues no power or command call and no lease return.   *)
C10_TakePreemptsOrRaises ==
    /\ [][(pc = "getLease" /\ pc' # "getLease" /\ holder = "other")
            => \/ lease' = "token" /\ holder' = "self" /\ ~exc' /\ pc' = "leaseKeepAlive"
               \/ lease' = "unset" /\ holder' = "other" /\ exc' /\ pc' = "done"]_vars
    /\ [](~LeaseTaken =>
            \A i \in DOMAIN log :
                log[i].op \notin (PowerCalls \cup CommandCalls \cup {"returnLease"}))

\* the lease was taken from another holder and the robot then powered on
C10_Witness ==
    /\ \E i \in DOMAIN log : log[i] = Stmt("getLease", "other")
    /\ LeaseTaken
    /\ last.call = "powerOn"
    /\ last.holder = "self"
    /\ powered

-----------------------------------------------------------------------------
(* C11: main never lets an error of the session reach its caller: it        *)
(* returns True exactly when no step of the session raised, and False when  *)
(* one did, the failed assertions included.                                 *)
C11_MainReportsOutcome ==
    mainResult # "none" =>
        /\ mainResult \in {"True", "False"}
        /\ mainResult = "True" <=> ~exc
        /\ mainResult = "False" <=> exc

\* the power-on assertion failed and main returned False
C11_Witness ==
    /\ mainResult = "False"
    /\ error = "AssertionError"
    /\ Called("powerOn")
    /\ ~Called("standUp")

(* C12: when the decoding of the fetched frame fails inside getImage, the   *)
(* image is still rotated, saveImage is attempted and getImage returns      *)
(* normally.                                                                *)
C12_DecodeFailureStillPersists ==
    (cap.method = "getImage" /\ cap.failed # "fetch" /\ cap.decodeFailed)
        => cap.rotated /\ cap.saved /\ cap.failed = "none"

(* C13: a frame that cannot be decoded, or a failing fusion, makes          *)
(* getDepthBlend raise, and saveImage is not reached for that capture.      *)
C13_BlendFailureRaisesUnsaved ==
    cap.method = "getDepthBlend" =>
        /\ (cap.decodeFailed /\ cap.failed # "fetch") => cap.failed = "decode"
        /\ cap.failed \in {"decode", "fuse"} =>
              /\ ~cap.saved
              /\ ~cap.written
              /\ exc
              /\ error \in {"ValueError", "AttributeError", "cv2.error", "Error"}
              /\ last.call \in {"getDepthBlend", "returnLease"}
              /\ ~Called("powerOff")

\* a blend whose visual frame did not decode: raised, nothing saved
C13_Witness ==
    /\ cap.method = "getDepthBlend"
    /\ cap.decodeFailed
    /\ cap.failed = "decode"
    /\ cap.error = "AttributeError"
    /\ ~cap.saved
    /\ pc = "done"

(* C14: a decode or fusion failure inside one getDepthBlend does not end    *)
(* the session: the remaining camera positions are still captured and the   *)
(* power-off is reached before the lease is released.                       *)
C14_BlendFailureAbortsOneCapture ==
    (pc = "done" /\ cap.method = "getDepthBlend" /\ cap.failed \in {"decode", "fuse"})
        => /\ Called("powerOff")
           /\ camera = "all" => Count("getDepthBlend") = Len(cameras)

(* C15: a failure while persisting a captured image (creating the           *)
(* destination directory, writing the file) is not propagated: the capture  *)
(* returns normally.                                                        *)
C15_PersistFailureRecovered ==
    (cap.failed = "getFullPath" \/ (cap.saved /\ ~cap.written))
        => cap.error = "none"

(* C16: a Capture session asked for a camera position outside the closed    *)
(* set never completes successfully.                                        *)
C16_UnknownPositionRejected ==
    (execution = "IMAGES" /\ camera \notin (CameraSet \cup {"all"}) /\ pc = "done")
        => exc

(* C17: every camera position has an angle in camera_angles, and the two    *)
(* source names getDepthBlend derives for it are the depth-in-visual-frame  *)
(* and the fisheye source of one group of CameraSource, each listed once,   *)
(* both of that position.                                                   *)
PairOf(p) ==
    {g \in 1..Len(CameraSource) :
        /\ BlendSources(p)[1] = CameraSource[g].DEPTH_VISUAL_FRAME
        /\ BlendSources(p)[2] = CameraSource[g].FISHEYE}

C17_PositionsHaveAngleAndPair ==
    /\ \A p \in PositionSet :
          /\ p \in DOMAIN camera_angles
          /\ Cardinality(PairOf(p)) = 1
          /\ \A k \in 1..2 :
                /\ SplitFirst(BlendSources(p)[k]) = p
                /\ Cardinality({j \in DOMAIN CameraSourceValues :
                                   CameraSourceValues[j] = BlendSources(p)[k]}) = 1
    /\ cap.method = "getDepthBlend" =>
          /\ cap.arg \in PositionSet
          /\ cap.fetched = BlendSources(cap.arg)
          /\ Cardinality(PairOf(cap.arg)) = 1
          /\ cap.angle = camera_angles[cap.arg]

\* the blend of the front-right camera fetched its pair and used its angle
C17_Witness ==
    /\ cap.method = "getDepthBlend"
    /\ cap.arg = "frontright"
    /\ cap.failed = "none"
    /\ cap.fetched = << "frontright_depth_in_visual_frame", "frontright_fisheye_image" >>
    /\ cap.angle = -102

(* C18: CameraSource.values() lists every source name of the five groups    *)
(* exactly once (15 distinct names), and a lookup in it is exact: None and  *)
(* parts of source names are not found.                                     *)
IsSourceName(x) ==
    \E g \in 1..Len(CameraSource), m \in 1..Len(MemberNames) :
        x = MemberValue(CameraSource[g], MemberNames[m])

C18_ValuesUniqueLookupExact ==
    /\ Len(CameraSourceValues) = 15
    /\ Cardinality({CameraSourceValues[k] : k \in DOMAIN CameraSourceValues}) = 15
    /\ \A g \in 1..Len(CameraSource), m \in 1..Len(MemberNames) :
          Cardinality({k \in DOMAIN CameraSourceValues :
              CameraSourceValues[k] = MemberValue(CameraSource[g], MemberNames[m])}) = 1
    /\ answer = "True" => IsSourceName(probe)
    /\ answer = "False" => ~IsSourceName(probe)
    /\ (answer # "none" /\ probe \in {"None", "back", "depth", "back_depth_in",
                                          "fisheye_image", "frontleft_", "_depth"})
          => answer = "False"

\* the lookup of a part of a source name went through the list and found nothing
C18_Witness ==
    /\ probe = "back_depth_in"
    /\ answer = "False"
    /\ scan = 15

(* C19: when the consecutive failed check-ins of the keep-alive reach the   *)
(* threshold, the keep-alive is torn down and an error is raised to the     *)
(* session.                                                                 *)
C19_LeaseLostAtThreshold ==
    kaFails >= MaxPingFails => (~kaRunning /\ exc)

\* position in the log of a step that was logged once
Pos(name) == CHOOSE i \in DOMAIN log : log[i].op = name

\* each named step was logged exactly once, in the order of the list
InOrder(names) ==
    /\ \A k \in 1..Len(names) : Count(names[k]) = 1
    /\ \A k \in 1..(Len(names) - 1) : Pos(names[k]) < Pos(names[k + 1])

\* every call of the behaviour lies between the power-on and the power-off
BehaviourBetweenPower ==
    \A i \in DOMAIN log :
        log[i].op \in (CommandCalls \cup CaptureCalls)
            => Pos("powerOn") < i /\ i < Pos("powerOff")

PoweredOrder ==
    /\ InOrder(<<"assertIsNotEStop", "getLease", "leaseKeepAlive", "powerOn",
                 "powerOff", "keepAliveExit", "returnLease">>)
    /\ log[Pos("powerOff")].arg = "graceful"
    /\ BehaviourBetweenPower

C21_DegenerateDepthDefined ==
    (converted /\ SeqMax(cv_depth) = SeqMin(cv_depth))
        => /\ "divide" \notin fpe
           /\ "invalid" \notin fpe
           /\ Len(depth8) = Len(cv_depth)

\* the step appended a call of name to the log
Calls(name) ==
    /\ Len(log') = Len(log) + 1
    /\ log'[Len(log')].op = name

(* C22: a stand, twist, move or image call is made only after the one       *)
(* powerOn of the session completed, with the robot read as powered on and  *)
(* the clients created by that powerOn; when powerOn fails, no such call is *)
(* made and returnLease is still called.                                    *)
C22_CommandsAfterVerifiedPowerOn ==
    /\ [][Calls("powerOn") =>
             /\ ~clients
             /\ clients' <=> ~exc'
             /\ clients' => powered']_vars
    /\ [](\A i \in DOMAIN log :
             log[i].op \in (CommandCalls \cup CaptureCalls)
                 => /\ clients
                    /\ Count("powerOn") = 1
                    /\ Pos("powerOn") < i)
    /\ []((Called("powerOn") /\ ~clients)
             => /\ \A i \in DOMAIN log :
                      log[i].op \notin (CommandCalls \cup CaptureCalls)
                /\ exc
                /\ pc = "done" => Count("returnLease") = 1)

\* a stand-up sent after a powerOn that created the clients
C22_Witness ==
    /\ last.call = "standUp"
    /\ clients
    /\ Count("powerOn") = 1
    /\ Pos("powerOn") < Len(log)

\* powerOn failed its check: nothing commanded, lease returned
C22_WitnessFailed ==
    /\ pc = "done"
    /\ Called("powerOn")
    /\ ~clients
    /\ error = "AssertionError"
    /\ Count("returnLease") = 1

=============================================================================
